---------------------------- MODULE Spec2Model ----------------------------
(***************************************************************************)
(* A model of program_10.py: descriptive statistics of daily streamflow by *)
(* water year and by calendar month.                                       *)
(*                                                                         *)
(* Dates are proleptic Gregorian ordinals (date.toordinal()), discharge    *)
(* values are non-negative integers, a missing value (np.NaN) is the       *)
(* sentinel NaN, and a quotient is the exact pair <<numerator,             *)
(* denominator>> (or NaN for 0/0), compared by cross-multiplication.       *)
(* Floating-point rounding of the quotients is outside the model.          *)
(***************************************************************************)
EXTENDS Integers, Sequences, FiniteSets, TLC

VARIABLES
    pc,              \* position of the function or script being run
    i,               \* the loop variable of the function being run
    index0,          \* DataDF.index[0]  of the series given to an aggregator
    indexN,          \* DataDF.index[-1] of the series given to an aggregator
    startDate,       \* GetAnnualStatistics / GetMonthlyStatistics: startDate
    endDate,         \* GetAnnualStatistics / GetMonthlyStatistics: endDate
    nRows,           \* len(WYmean.index) / len(mMean.index)
    slices,          \* the windows DataDF[startDate:endDate] the loop has used
    table,           \* the DataFrame the aggregator returns
    Qvalues,         \* the argument of a metric function
    result,          \* the value a metric function returns
    monthRows,       \* GetMonthlyAverages: the rows of its argument MoDataDF
    MonthAVG,        \* GetMonthlyAverages: MonthAVG
    avgFrame,        \* GetMonthlyAverages: the DataFrame it returns
    fileData,        \* __main__: the observations each station's file holds
    file,            \* __main__: position of the loop over fileName.keys()
    DataDF,          \* __main__: DataDF, a dict keyed by station
    MissingValues,   \* __main__: MissingValues
    WYDataDF,        \* __main__: WYDataDF
    AnnualAverages,  \* __main__: AnnualAverages
    MoDataDF,        \* __main__: MoDataDF
    MonthlyAverages, \* __main__: MonthlyAverages
    written,         \* __main__: the output files written
    error            \* the exception that ended the script, or "none"

varsPeriod == <<index0, indexN, startDate, endDate, nRows, slices, table>>

varsMetric == <<Qvalues, result>>

varsAverage == <<monthRows, MonthAVG, avgFrame>>

varsMain == <<fileData, file, DataDF, MissingValues, WYDataDF, AnnualAverages,
              MoDataDF, MonthlyAverages, written, error>>

vars == <<pc, i, varsPeriod, varsMetric, varsAverage, varsMain>>

\* np.NaN, a missing discharge value (valid values are >= 0)
NaN == -1

\* the quotient 0/0 of two counts or sums
QNaN == <<0, 0>>

\* the variables of the other functions, while one function is examined
PeriodIdle ==
    /\ index0 = 0 /\ indexN = 0 /\ startDate = 0 /\ endDate = 0 /\ nRows = 0
    /\ slices = <<>> /\ table = <<>>

MetricIdle == Qvalues = <<>> /\ result = QNaN

AverageIdle == monthRows = <<>> /\ MonthAVG = <<>> /\ avgFrame = <<>>

MainIdle ==
    /\ fileData = <<>> /\ file = 0 /\ DataDF = <<>> /\ MissingValues = <<>>
    /\ WYDataDF = <<>> /\ AnnualAverages = <<>> /\ MoDataDF = <<>>
    /\ MonthlyAverages = <<>> /\ written = {} /\ error = "none"

-----------------------------------------------------------------------------
(* Calendar arithmetic of pandas Timestamp / DateOffset.                   *)

IsLeap(y) == (y % 4 = 0 /\ y % 100 # 0) \/ y % 400 = 0

DaysInMonth(y, m) ==
    IF m = 2 THEN (IF IsLeap(y) THEN 29 ELSE 28)
    ELSE IF m \in {4, 6, 9, 11} THEN 30 ELSE 31

DaysBeforeMonth(y, m) ==
    <<0, 31, 59, 90, 120, 151, 181, 212, 243, 273, 304, 334>>[m]
        + (IF m > 2 /\ IsLeap(y) THEN 1 ELSE 0)

LeapsBefore(y) == ((y - 1) \div 4) - ((y - 1) \div 100) + ((y - 1) \div 400)

ToOrdinal(y, m, d) == 365 * (y - 1) + LeapsBefore(y) + DaysBeforeMonth(y, m) + d

YearOf(n) ==
    CHOOSE y \in (n \div 366)..((n \div 365) + 1) :
        ToOrdinal(y, 1, 1) <= n /\ n < ToOrdinal(y + 1, 1, 1)

MonthOf(n) ==
    LET y == YearOf(n)
    IN  CHOOSE m \in 1..12 :
            /\ ToOrdinal(y, m, 1) <= n
            /\ n < ToOrdinal(y, m, 1) + DaysInMonth(y, m)

DayOf(n) == n - ToOrdinal(YearOf(n), MonthOf(n), 1) + 1

\* ts + pd.DateOffset(days=k)
AddDays(n, k) == n + k

\* ts + pd.DateOffset(months=1): the next month, the day clamped to its length
AddMonth(n) ==
    LET y  == YearOf(n)
        m  == MonthOf(n)
        d  == DayOf(n)
        y2 == IF m = 12 THEN y + 1 ELSE y
        m2 == IF m = 12 THEN 1 ELSE m + 1
        d2 == IF d > DaysInMonth(y2, m2) THEN DaysInMonth(y2, m2) ELSE d
    IN  ToOrdinal(y2, m2, d2)

-----------------------------------------------------------------------------
(* Bounds of the period aggregators' inputs.                               *)

\* the longest series given to GetAnnualStatistics, in water years
MaxYears == 4

\* the longest series given to GetMonthlyStatistics, in months after the first
MaxMonths == 3

\* calendar years the first observation is drawn from: around the non-leap
\* century year 1900, the leap century year 2000 and the water year 2020
StartYears == (1896..1903) \cup (1997..2000) \cup (2016..2019)

\* <<month, day>> of the first and of the last observation (annual input)
AnnualFirstDays == {<<10, 1>>, <<10, 2>>, <<6, 1>>}

AnnualLastDays == {<<9, 30>>, <<3, 15>>}

\* first observations of the monthly input, as <<year, month, day>>
MonthlyFirstDates ==
    {<<y, m, d>> \in {1900, 2019, 2020} \X {1, 2, 3, 11, 12} \X {1, 15, 29, 31} :
        d <= DaysInMonth(y, m)}

-----------------------------------------------------------------------------
(* Resampling: the bins pandas makes of a daily series.                    *)

\* the calendar year in which the water year of date n starts ('AS-OCT')
WaterYearStart(n) == IF MonthOf(n) >= 10 THEN YearOf(n) ELSE YearOf(n) - 1

\* len(resample('AS-OCT').mean().index): one bin per water year from the first
\* observation's to the last observation's
WaterYearCount(first, last) == WaterYearStart(last) - WaterYearStart(first) + 1

\* the k-th water-year bin of a series that starts at first, as [lo, hi]
WaterYearBin(first, k) ==
    [lo |-> ToOrdinal(WaterYearStart(first) + k - 1, 10, 1),
     hi |-> ToOrdinal(WaterYearStart(first) + k, 9, 30)]

\* months since year 0 of date n
MonthNumber(n) == 12 * YearOf(n) + (MonthOf(n) - 1)

\* len(resample('M').mean().index): one bin per calendar month
MonthCount(first, last) == MonthNumber(last) - MonthNumber(first) + 1

\* the k-th calendar-month bin of a series that starts at first, as [lo, hi]
MonthBin(first, k) ==
    LET mn == MonthNumber(first) + k - 1
        y  == mn \div 12
        m  == (mn % 12) + 1
    IN  [lo |-> ToOrdinal(y, m, 1), hi |-> ToOrdinal(y, m, DaysInMonth(y, m))]

\* the observations of DataDF[lo:hi]: the dates of [lo, hi] inside the series
\* (contiguous here), as <<first, last>>, or <<0, 0>> when there is none
SliceDates(lo, hi) ==
    LET a == IF lo > index0 THEN lo ELSE index0
        b == IF hi < indexN THEN hi ELSE indexN
    IN  IF a <= b THEN <<a, b>> ELSE <<0, 0>>

-----------------------------------------------------------------------------
(* GetAnnualStatistics                                                     *)

\* WaterYearEnd as it would be with the October correction left out
WaterYearEndNoShift(start) == AddDays(start, 365)

\* endDate = startDate + 365 days, shifted back a day when it lands in October
WaterYearEnd(start) ==
    LET e == AddDays(start, 365)
    IN  IF MonthOf(e) = 10 THEN AddDays(e, -1) ELSE e

\* lines 170-172: the resampled rows joined with the metrics the loop appended
WYDF ==
    [k \in 1..nRows |-> [label |-> WaterYearBin(index0, k).lo,
                         lo |-> slices[k].lo, hi |-> slices[k].hi]]

AnnualInit ==
    /\ pc = "annual"
    /\ \E y \in StartYears, f \in AnnualFirstDays, n \in 1..MaxYears,
          l \in AnnualLastDays :
          /\ index0 = ToOrdinal(y, f[1], f[2])
          /\ indexN = ToOrdinal(y + n, l[1], l[2])
    /\ startDate = 0 /\ endDate = 0 /\ nRows = 0 /\ i = 0
    /\ slices = <<>> /\ table = <<>>
    /\ MetricIdle /\ AverageIdle /\ MainIdle

\* lines 136-151: the resampled columns and the first window
AnnualResample ==
    /\ pc = "annual"
    /\ nRows' = WaterYearCount(index0, indexN)
    /\ startDate' = index0
    /\ endDate' = WaterYearEnd(index0)
    /\ i' = 0
    /\ pc' = "annual_loop"
    /\ UNCHANGED <<index0, indexN, slices, table>>
    /\ UNCHANGED <<varsMetric, varsAverage, varsMain>>

\* lines 153-167: one water year of the loop
AnnualYear ==
    /\ pc = "annual_loop"
    /\ i < nRows
    /\ slices' = Append(slices, [lo |-> startDate, hi |-> endDate])
    /\ startDate' = AddDays(endDate, 1)
    /\ endDate' = WaterYearEnd(AddDays(endDate, 1))
    /\ i' = i + 1
    /\ UNCHANGED <<pc, index0, indexN, nRows, table>>
    /\ UNCHANGED <<varsMetric, varsAverage, varsMain>>

\* lines 169-175: the DataFrame of all the statistics
AnnualFrame ==
    /\ pc = "annual_loop"
    /\ i = nRows
    /\ table' = WYDF
    /\ pc' = "annual_done"
    /\ UNCHANGED <<index0, indexN, startDate, endDate, nRows, i, slices>>
    /\ UNCHANGED <<varsMetric, varsAverage, varsMain>>

AnnualNext == AnnualResample \/ AnnualYear \/ AnnualFrame

SpecAnnual == AnnualInit /\ [][AnnualNext]_vars

-----------------------------------------------------------------------------
(* GetMonthlyStatistics                                                    *)

\* endDate = (startDate + 1 month) - 1 day
MonthEnd(start) == AddDays(AddMonth(start), -1)

\* lines 206-207: the resampled rows joined with the metrics the loop appended,
\* relabelled to the first day of each month
mDF ==
    [k \in 1..nRows |-> [label |-> MonthBin(index0, k).lo,
                         lo |-> slices[k].lo, hi |-> slices[k].hi]]

MonthlyInit ==
    /\ pc = "monthly"
    /\ \E f \in MonthlyFirstDates, n \in 0..MaxMonths, mid \in BOOLEAN :
          /\ index0 = ToOrdinal(f[1], f[2], f[3])
          /\ LET b == MonthBin(ToOrdinal(f[1], f[2], f[3]), n + 1)
             IN  indexN = IF mid /\ b.lo + 9 >= ToOrdinal(f[1], f[2], f[3])
                          THEN b.lo + 9 ELSE b.hi
    /\ startDate = 0 /\ endDate = 0 /\ nRows = 0 /\ i = 0
    /\ slices = <<>> /\ table = <<>>
    /\ MetricIdle /\ AverageIdle /\ MainIdle

\* lines 182-193: the resampled columns and the first window
MonthlyResample ==
    /\ pc = "monthly"
    /\ nRows' = MonthCount(index0, indexN)
    /\ startDate' = index0
    /\ endDate' = MonthEnd(index0)
    /\ i' = 0
    /\ pc' = "monthly_loop"
    /\ UNCHANGED <<index0, indexN, slices, table>>
    /\ UNCHANGED <<varsMetric, varsAverage, varsMain>>

\* lines 195-203: one month of the loop
MonthlyMonth ==
    /\ pc = "monthly_loop"
    /\ i < nRows
    /\ slices' = Append(slices, [lo |-> startDate, hi |-> endDate])
    /\ startDate' = AddDays(endDate, 1)
    /\ endDate' = MonthEnd(AddDays(endDate, 1))
    /\ i' = i + 1
    /\ UNCHANGED <<pc, index0, indexN, nRows, table>>
    /\ UNCHANGED <<varsMetric, varsAverage, varsMain>>

\* lines 206-209: the DataFrame, relabelled to the first day of each month
MonthlyFrame ==
    /\ pc = "monthly_loop"
    /\ i = nRows
    /\ table' = mDF
    /\ pc' = "monthly_done"
    /\ UNCHANGED <<index0, indexN, startDate, endDate, nRows, i, slices>>
    /\ UNCHANGED <<varsMetric, varsAverage, varsMain>>

MonthlyNext == MonthlyResample \/ MonthlyMonth \/ MonthlyFrame

SpecMonthly == MonthlyInit /\ [][MonthlyNext]_vars

-----------------------------------------------------------------------------
(* Claims about the period aggregators.                                    *)

\* the series starts on an Oct 1 and ends on a Sep 30
FullWaterYears ==
    /\ MonthOf(index0) = 10 /\ DayOf(index0) = 1
    /\ MonthOf(indexN) = 9 /\ DayOf(indexN) = 30

\* the days from lo to hi hold a Feb 29
HoldsLeapDay(lo, hi) ==
    \E y \in YearOf(lo)..YearOf(hi) :
        IsLeap(y) /\ lo <= ToOrdinal(y, 2, 29) /\ ToOrdinal(y, 2, 29) <= hi

\* C1: for a series of exactly N full water years (Oct 1 .. Sep 30),
\* GetAnnualStatistics returns N rows and its k-th slice window is Oct 1 of
\* year Y-1 through Sep 30 of year Y, 366 days long when the range holds a
\* Feb 29 and 365 days long otherwise.
C1_FullWaterYearWindows ==
    (pc = "annual_done" /\ FullWaterYears) =>
        /\ Len(table) = YearOf(indexN) - YearOf(index0)
        /\ \A k \in 1..Len(table) :
              LET Y == YearOf(index0) + k
              IN  /\ table[k].lo = ToOrdinal(Y - 1, 10, 1)
                  /\ table[k].hi = ToOrdinal(Y, 9, 30)
                  /\ table[k].label = table[k].lo
                  /\ table[k].hi - table[k].lo + 1 =
                        IF HoldsLeapDay(table[k].lo, table[k].hi) THEN 366 ELSE 365

\* C1 witness: a full-water-year series of at least three years whose windows
\* include a 366-day one followed later by a 365-day one
C1_Witness ==
    /\ pc = "annual_done" /\ FullWaterYears
    /\ Len(table) >= 3
    /\ \E j, k \in 1..Len(table) :
          /\ j < k
          /\ table[j].hi - table[j].lo + 1 = 366
          /\ table[k].hi - table[k].lo + 1 = 365

\* C2: every row of GetAnnualStatistics has its loop metrics (Skew, Tqmean,
\* R-B Index, 7Q, 3xMedian) computed over exactly the observations of the
\* row's own water year, also when the series starts off Oct 1 or ends off
\* Sep 30, and there is one row per water year of the series.
C2_RowMetricsOverOwnWaterYear ==
    pc = "annual_done" =>
        /\ Len(table) = WaterYearCount(index0, indexN)
        /\ \A k \in 1..Len(table) :
              SliceDates(table[k].lo, table[k].hi) =
                  SliceDates(WaterYearBin(index0, k).lo, WaterYearBin(index0, k).hi)

\* C3: every calendar month of the series has one row in GetMonthlyStatistics,
\* and the row's Tqmean and R-B Index are computed over the observations of
\* that month, first day to last day, whatever the first observation's day.
C3_RowMetricsOverOwnMonth ==
    pc = "monthly_done" =>
        /\ Len(table) = MonthCount(index0, indexN)
        /\ \A k \in 1..Len(table) :
              SliceDates(table[k].lo, table[k].hi) =
                  SliceDates(MonthBin(index0, k).lo, MonthBin(index0, k).hi)

-----------------------------------------------------------------------------
(* The metric functions.  A quotient a/b is the pair <<a, b>>; 0/0 is QNaN. *)

\* the longest period given to CalcTqmean and CalcRBindex
MaxLen == 4

\* the longest period given to Calc7Q
MaxLen7Q == 9

\* the discharge values of the periods given to CalcTqmean and CalcRBindex
QDomain == {NaN, 0, 1, 2, 5}

\* the discharge values of the periods given to Calc7Q
QDomain7Q == {NaN, 1, 4}

\* the 8-day example series 1, 2, ..., 8
Example7Q == <<1, 2, 3, 4, 5, 6, 7, 8>>

SeqsUpTo(S, n) == UNION {[1..k -> S] : k \in 0..n}

IsNaN(r) == r = QNaN

\* a < b, a <= b and a = b of two quotients; a comparison with NaN is false
QLess(a, b) == ~IsNaN(a) /\ ~IsNaN(b) /\ a[1] * b[2] < b[1] * a[2]

QLeq(a, b) == ~IsNaN(a) /\ ~IsNaN(b) /\ a[1] * b[2] <= b[1] * a[2]

QEq(a, b) == ~IsNaN(a) /\ ~IsNaN(b) /\ a[1] * b[2] = b[1] * a[2]

RECURSIVE SeriesSum(_)
\* Series.sum(): the sum of the values that are not NaN
SeriesSum(Q) ==
    IF Q = <<>> THEN 0
    ELSE (IF Head(Q) = NaN THEN 0 ELSE Head(Q)) + SeriesSum(Tail(Q))

RECURSIVE SeriesCount(_)
\* Series.count(): the number of values that are not NaN
SeriesCount(Q) ==
    IF Q = <<>> THEN 0
    ELSE (IF Head(Q) = NaN THEN 0 ELSE 1) + SeriesCount(Tail(Q))

\* Series.mean(): NaN values skipped, 0/0 for a period with no valid value
SeriesMean(Q) == <<SeriesSum(Q), SeriesCount(Q)>>

\* ExceedsMean as it would be with >= written for >
ExceedsMeanOrEqual(v, qMean) == v # NaN /\ QLeq(qMean, <<v, 1>>)

\* one element of Qvalues > qMean (false for a NaN on either side)
ExceedsMean(v, qMean) == v # NaN /\ QLess(qMean, <<v, 1>>)

\* Qvalues.dropna() with its result discarded (lines 77, 93, 111)
DropnaDiscarded(Q) == Q

\* lines 70-83
CalcTqmean(Q0) ==
    LET Q == DropnaDiscarded(Q0)
        qMean == SeriesMean(Q)
        totalDataPoints == SeriesCount(Q)
        greaterThanMean ==
            SeriesCount(SelectSeq(Q, LAMBDA v : ExceedsMean(v, qMean)))
    IN  <<greaterThanMean, totalDataPoints>>

RECURSIVE PathLength(_, _, _)
\* lines 95-97: the loop over i in range(len(Qvalues) - 1), from position k
\* with deltaDischarge = acc; a NaN operand makes the total NaN
PathLength(Q, k, acc) ==
    IF k > Len(Q) - 1 THEN acc
    ELSE PathLength(Q, k + 1,
            IF acc = NaN \/ Q[k] = NaN \/ Q[k + 1] = NaN THEN NaN
            ELSE acc + (IF Q[k] >= Q[k + 1] THEN Q[k] - Q[k + 1]
                        ELSE Q[k + 1] - Q[k]))

\* lines 85-100
CalcRBindex(Q0) ==
    LET Q == DropnaDiscarded(Q0)
        totalDischarge == SeriesSum(Q)
        deltaDischarge == PathLength(Q, 1, 0)
    IN  IF deltaDischarge = NaN THEN QNaN ELSE <<deltaDischarge, totalDischarge>>

\* rolling(window=7)
Window == 7

\* RollingMean as it would be with a missing day counted as zero flow
RollingMeanZeroFill(Q) ==
    [k \in 1..Len(Q) |->
        IF k < Window THEN QNaN
        ELSE <<SeriesSum(SubSeq(Q, k - Window + 1, k)), Window>>]

\* RollingMean as it would be with min_periods=1: the mean of the valid days
RollingMeanOfValid(Q) ==
    [k \in 1..Len(Q) |->
        SeriesMean(SubSeq(Q, IF k < Window THEN 1 ELSE k - Window + 1, k))]

\* Qvalues.rolling(window=7).mean(): NaN until 7 values are seen and wherever
\* the window holds a NaN
RollingMean(Q) ==
    [k \in 1..Len(Q) |->
        IF k < Window \/ SeriesCount(SubSeq(Q, k - Window + 1, k)) < Window
        THEN QNaN
        ELSE <<SeriesSum(SubSeq(Q, k - Window + 1, k)), Window>>]

RECURSIVE SeriesMin(_)
\* Series.min() of a series of quotients: NaN skipped, NaN when all are NaN
SeriesMin(S) ==
    IF S = <<>> THEN QNaN
    ELSE LET rest == SeriesMin(Tail(S))
         IN  IF IsNaN(Head(S)) THEN rest
             ELSE IF IsNaN(rest) \/ QLeq(Head(S), rest) THEN Head(S)
             ELSE rest

\* lines 102-114
Calc7Q(Q0) ==
    LET Q == DropnaDiscarded(Q0)
        moveAVG == RollingMean(Q)
    IN  SeriesMin(moveAVG)

MetricInit ==
    /\ pc = "metric"
    /\ Qvalues \in SeqsUpTo(QDomain, MaxLen)
    /\ result = QNaN
    /\ i = 0
    /\ PeriodIdle /\ AverageIdle /\ MainIdle

TqmeanCall ==
    /\ pc = "metric"
    /\ result' = CalcTqmean(Qvalues)
    /\ pc' = "tqmean"
    /\ UNCHANGED <<i, Qvalues, varsPeriod, varsAverage, varsMain>>

RBindexCall ==
    /\ pc = "metric"
    /\ result' = CalcRBindex(Qvalues)
    /\ pc' = "rbindex"
    /\ UNCHANGED <<i, Qvalues, varsPeriod, varsAverage, varsMain>>

MetricNext == TqmeanCall \/ RBindexCall

SpecMetrics == MetricInit /\ [][MetricNext]_vars

SevenQInit ==
    /\ pc = "metric"
    /\ Qvalues \in SeqsUpTo(QDomain7Q, MaxLen7Q) \cup {Example7Q}
    /\ result = QNaN
    /\ i = 0
    /\ PeriodIdle /\ AverageIdle /\ MainIdle

SevenQCall ==
    /\ pc = "metric"
    /\ result' = Calc7Q(Qvalues)
    /\ pc' = "7q"
    /\ UNCHANGED <<i, Qvalues, varsPeriod, varsAverage, varsMain>>

SevenQNext == SevenQCall

Spec7Q == SevenQInit /\ [][SevenQNext]_vars

-----------------------------------------------------------------------------
(* Claims about the metric functions.                                      *)

\* the positions of Qvalues that hold a value
ValidDays == {k \in DOMAIN Qvalues : Qvalues[k] # NaN}

RECURSIVE SumOver(_)
\* the sum of Qvalues over a set of positions
SumOver(K) ==
    IF K = {} THEN 0
    ELSE LET k == CHOOSE x \in K : TRUE IN Qvalues[k] + SumOver(K \ {k})

C6_RBindexNonNegative ==
    (pc = "rbindex" /\ \E k \in ValidDays : Qvalues[k] > 0) =>
        /\ QLeq(<<0, 1>>, result)
        /\ (ValidDays = DOMAIN Qvalues
            /\ \A k \in 1..(Len(Qvalues) - 1) : Qvalues[k] <= Qvalues[k + 1])
              => QEq(result, <<Qvalues[Len(Qvalues)] - Qvalues[1],
                               SumOver(ValidDays)>>)

\* the last positions of the windows of 7 consecutive valid days
FullWindows ==
    {k \in Window..Len(Qvalues) : \A j \in (k - Window + 1)..k : Qvalues[j] # NaN}

\* the minimum single-day value of a period with a valid day
MinDay == CHOOSE v \in {Qvalues[k] : k \in ValidDays} :
              \A k \in ValidDays : v <= Qvalues[k]

-----------------------------------------------------------------------------
(* GetMonthlyAverages                                                      *)

\* the most rows of a monthly table given to GetMonthlyAverages
MaxRows == 14

\* range(12)
Months == 12

\* the values of the table's column: row k holds position ((k-1) % 5) + 1
RowPatterns == [1..5 -> {NaN, 1, 2}]

\* the month of the table's first row, as a month number (January, December 2018)
FirstRowMonths == {12 * 2018, 12 * 2018 + 11}

\* the rows of a monthly table: n consecutive months, each indexed by the year
\* and month of its first day
MonthlyTable(mn0, n, p) ==
    [k \in 1..n |->
        [year  |-> (mn0 + k - 1) \div 12,
         month |-> ((mn0 + k - 1) % 12) + 1,
         val   |-> p[((k - 1) % 5) + 1]]]

RECURSIVE ColumnOf(_)
\* the column of a table, as a series
ColumnOf(rows) ==
    IF rows = <<>> THEN <<>> ELSE <<Head(rows).val>> \o ColumnOf(Tail(rows))

\* MonthSelected as it would be with the loop variable taken for the month
MonthSelectedOffByOne(month, j) == month = j

\* dates.month == (i+1), for one row
MonthSelected(month, j) == month = j + 1

\* MoDataDF.loc[dates.month == (i+1)].mean(): the column's mean, NaN skipped
MonthMean(rows, j) ==
    SeriesMean(ColumnOf(SelectSeq(rows, LAMBDA r : MonthSelected(r.month, j))))

AveragesInit ==
    /\ pc = "averages"
    /\ \E mn0 \in FirstRowMonths, n \in 1..MaxRows, p \in RowPatterns :
          monthRows = MonthlyTable(mn0, n, p)
    /\ MonthAVG = <<>> /\ avgFrame = <<>> /\ i = 0
    /\ PeriodIdle /\ MetricIdle /\ MainIdle

\* lines 229-230: one month of the loop
AveragesMonth ==
    /\ pc = "averages"
    /\ i < Months
    /\ MonthAVG' = Append(MonthAVG, MonthMean(monthRows, i))
    /\ i' = i + 1
    /\ UNCHANGED <<pc, monthRows, avgFrame, varsPeriod, varsMetric, varsMain>>

\* lines 232-240: the DataFrame keyed 1..12, transposed
AveragesFrame ==
    /\ pc = "averages"
    /\ i = Months
    /\ avgFrame' = <<[index |-> 1,  mean |-> MonthAVG[1]],
                     [index |-> 2,  mean |-> MonthAVG[2]],
                     [index |-> 3,  mean |-> MonthAVG[3]],
                     [index |-> 4,  mean |-> MonthAVG[4]],
                     [index |-> 5,  mean |-> MonthAVG[5]],
                     [index |-> 6,  mean |-> MonthAVG[6]],
                     [index |-> 7,  mean |-> MonthAVG[7]],
                     [index |-> 8,  mean |-> MonthAVG[8]],
                     [index |-> 9,  mean |-> MonthAVG[9]],
                     [index |-> 10, mean |-> MonthAVG[10]],
                     [index |-> 11, mean |-> MonthAVG[11]],
                     [index |-> 12, mean |-> MonthAVG[12]]>>
    /\ pc' = "averages_done"
    /\ UNCHANGED <<i, monthRows, MonthAVG, varsPeriod, varsMetric, varsMain>>

AveragesNext == AveragesMonth \/ AveragesFrame

SpecAverages == AveragesInit /\ [][AveragesNext]_vars

\* the rows of the table whose calendar month is m and whose value is valid
ValidRowsOfMonth(m) ==
    {k \in DOMAIN monthRows :
        monthRows[k].month = m /\ monthRows[k].val # NaN}

RECURSIVE RowSum(_)
\* the sum of the table's column over a set of rows
RowSum(K) ==
    IF K = {} THEN 0
    ELSE LET k == CHOOSE x \in K : TRUE IN monthRows[k].val + RowSum(K \ {k})

\* C9: GetMonthlyAverages returns exactly 12 rows, indexed 1..12 in that order,
\* for every monthly table, also one of fewer than 12 months; row m is the
\* column mean of exactly the rows whose calendar month is m, whatever their
\* year (NaN when there is none).
C9_TwelveMonthlyAverages ==
    pc = "averages_done" =>
        /\ Len(avgFrame) = 12
        /\ \A m \in 1..12 :
              /\ avgFrame[m].index = m
              /\ avgFrame[m].mean =
                    <<RowSum(ValidRowsOfMonth(m)), Cardinality(ValidRowsOfMonth(m))>>

\* C9 witness: a table of more than 12 months in which a month has two valid
\* rows, of different years and values, and an invalid row elsewhere
C9_Witness ==
    /\ pc = "averages_done"
    /\ \E m \in 1..12 : \E j, k \in ValidRowsOfMonth(m) :
          /\ monthRows[j].year # monthRows[k].year
          /\ monthRows[j].val # monthRows[k].val
    /\ \E k \in DOMAIN monthRows : monthRows[k].val = NaN

-----------------------------------------------------------------------------
(* ReadData, ClipData and the script.                                      *)

\* fileName.keys(), in the order of the dictionary
Stations == <<"Wildcat", "Tippe">>

\* ClipData( DataDF[file], '1969-10-01', '2019-09-30' )
ClipStart == ToOrdinal(1969, 10, 1)

ClipEnd == ToOrdinal(2019, 9, 30)

\* the dates a station's file may hold an observation of
SampleDates == {ClipStart - 1, ClipStart, ClipEnd, ClipEnd + 1}

\* the discharge a file may report: a valid flow or a negative gross error
RawValues == {3, -2}

\* the files: observations in ascending order of date, one to four of them
RawSeries ==
    {f \in SeqsUpTo([Date : SampleDates, Discharge : RawValues],
                    Cardinality(SampleDates)) :
        /\ f # <<>>
        /\ \A k \in 1..(Len(f) - 1) : f[k].Date < f[k + 1].Date}

RECURSIVE MissingCount(_)
\* DataDF["Discharge"].isna().sum()
MissingCount(DF) ==
    IF DF = <<>> THEN 0
    ELSE (IF Head(DF).Discharge = NaN THEN 1 ELSE 0) + MissingCount(Tail(DF))

\* lines 28-55: negative streamflow set to NaN, the missing values counted
ReadData(raw) ==
    LET DF == [k \in DOMAIN raw |->
                  [Date |-> raw[k].Date,
                   Discharge |-> IF raw[k].Discharge < 0 THEN NaN
                                 ELSE raw[k].Discharge]]
    IN  [DataDF |-> DF, MissingValues |-> MissingCount(DF)]

\* lines 57-68: the rows from start to end, end points included; an empty
\* selection is returned like any other
ClipData(DF, start, end) ==
    LET clipped == SelectSeq(DF, LAMBDA r : start <= r.Date /\ r.Date <= end)
    IN  [DataDF |-> clipped, MissingValues |-> MissingCount(clipped)]

\* the station the loop is at
Station == Stations[file]

\* d[key] = value of a dict
Put(d, key, value) == [k \in (DOMAIN d) \cup {key} |-> IF k = key THEN value ELSE d[k]]

Init ==
    /\ pc = "main_read"
    /\ file = 1
    /\ fileData \in [{Stations[k] : k \in DOMAIN Stations} -> RawSeries]
    /\ DataDF = <<>> /\ MissingValues = <<>> /\ WYDataDF = <<>>
    /\ AnnualAverages = <<>> /\ MoDataDF = <<>> /\ MonthlyAverages = <<>>
    /\ written = {} /\ error = "none"
    /\ i = 0
    /\ PeriodIdle /\ MetricIdle /\ AverageIdle

\* lines 266-269
MainRead ==
    /\ pc = "main_read"
    /\ DataDF' = Put(DataDF, Station, ReadData(fileData[Station]).DataDF)
    /\ MissingValues' =
          Put(MissingValues, Station, ReadData(fileData[Station]).MissingValues)
    /\ pc' = "main_clip"
    /\ UNCHANGED <<i, fileData, file, WYDataDF, AnnualAverages, MoDataDF,
                   MonthlyAverages, written, error>>
    /\ UNCHANGED <<varsPeriod, varsMetric, varsAverage>>

\* lines 271-273
MainClip ==
    /\ pc = "main_clip"
    /\ DataDF' = Put(DataDF, Station,
                     ClipData(DataDF[Station], ClipStart, ClipEnd).DataDF)
    /\ MissingValues' = Put(MissingValues, Station,
                     ClipData(DataDF[Station], ClipStart, ClipEnd).MissingValues)
    /\ pc' = "main_annual"
    /\ UNCHANGED <<i, fileData, file, WYDataDF, AnnualAverages, MoDataDF,
                   MonthlyAverages, written, error>>
    /\ UNCHANGED <<varsPeriod, varsMetric, varsAverage>>

\* the table GetAnnualStatistics returns to the script, by its number of rows
\* and the labels of its first and last row
AnnualTableOf(DF) ==
    LET first == DF[1].Date
        last  == DF[Len(DF)].Date
    IN  [rows |-> WaterYearCount(first, last),
         first |-> WaterYearBin(first, 1).lo,
         last |-> WaterYearBin(first, WaterYearCount(first, last)).lo]

\* the table GetMonthlyStatistics returns to the script, likewise
MonthlyTableOf(DF) ==
    LET first == DF[1].Date
        last  == DF[Len(DF)].Date
    IN  [rows |-> MonthCount(first, last),
         first |-> MonthBin(first, 1).lo,
         last |-> MonthBin(first, MonthCount(first, last)).lo]

\* lines 275-276: GetAnnualStatistics; DataDF.index[0] of an empty series
\* raises IndexError, which nothing catches
MainAnnual ==
    /\ pc = "main_annual"
    /\ IF DataDF[Station] = <<>>
       THEN /\ error' = "IndexError"
            /\ pc' = "main_crashed"
            /\ UNCHANGED WYDataDF
       ELSE /\ WYDataDF' = Put(WYDataDF, Station,
                               AnnualTableOf(DataDF[Station]))
            /\ pc' = "main_annual_avg"
            /\ UNCHANGED error
    /\ UNCHANGED <<i, fileData, file, DataDF, MissingValues, AnnualAverages,
                   MoDataDF, MonthlyAverages, written>>
    /\ UNCHANGED <<varsPeriod, varsMetric, varsAverage>>

\* lines 278-281: GetAnnualAverages, one row of column means
MainAnnualAverages ==
    /\ pc = "main_annual_avg"
    /\ AnnualAverages' = Put(AnnualAverages, Station, [rows |-> 1])
    /\ pc' = "main_monthly"
    /\ UNCHANGED <<i, fileData, file, DataDF, MissingValues, WYDataDF,
                   MoDataDF, MonthlyAverages, written, error>>
    /\ UNCHANGED <<varsPeriod, varsMetric, varsAverage>>

\* lines 283-284: GetMonthlyStatistics
MainMonthly ==
    /\ pc = "main_monthly"
    /\ MoDataDF' = Put(MoDataDF, Station,
                       MonthlyTableOf(DataDF[Station]))
    /\ pc' = "main_monthly_avg"
    /\ UNCHANGED <<i, fileData, file, DataDF, MissingValues, WYDataDF,
                   AnnualAverages, MonthlyAverages, written, error>>
    /\ UNCHANGED <<varsPeriod, varsMetric, varsAverage>>

\* lines 286-289: GetMonthlyAverages, then the next station of the loop
MainMonthlyAverages ==
    /\ pc = "main_monthly_avg"
    /\ MonthlyAverages' = Put(MonthlyAverages, Station, [rows |-> Months])
    /\ IF file < Len(Stations)
       THEN file' = file + 1 /\ pc' = "main_read"
       ELSE file' = file /\ pc' = "main_output"
    /\ UNCHANGED <<i, fileData, DataDF, MissingValues, WYDataDF,
                   AnnualAverages, MoDataDF, written, error>>
    /\ UNCHANGED <<varsPeriod, varsMetric, varsAverage>>

\* lines 291-320: the stations' tables concatenated and the four files written
MainOutput ==
    /\ pc = "main_output"
    /\ written' = {"Annual_Metrics.csv", "Monthly_Metrics.csv",
                   "Average_Annual_Metrics.txt", "Average_Monthly_Metrics.txt"}
    /\ pc' = "main_done"
    /\ UNCHANGED <<i, fileData, file, DataDF, MissingValues, WYDataDF,
                   AnnualAverages, MoDataDF, MonthlyAverages, error>>
    /\ UNCHANGED <<varsPeriod, varsMetric, varsAverage>>

Next ==
    \/ MainRead
    \/ MainClip
    \/ MainAnnual
    \/ MainAnnualAverages
    \/ MainMonthly
    \/ MainMonthlyAverages
    \/ MainOutput

Spec == Init /\ [][Next]_vars

-----------------------------------------------------------------------------
(* Claims about the script and ClipData.                                   *)

\* the observations of a station's file that ClipData is to retain
InRange(s) ==
    SelectSeq(ReadData(fileData[s]).DataDF,
              LAMBDA r : ClipStart <= r.Date /\ r.Date <= ClipEnd)

\* C4: a failure while processing one station (an empty series after clipping)
\* ends only that station's processing: when the script has ended, every
\* station whose clipped series is not empty has all four of its tables.
C4_FailureEndsOnlyItsStation ==
    pc \in {"main_done", "main_crashed"} =>
        \A k \in DOMAIN Stations :
            InRange(Stations[k]) # <<>> =>
                /\ Stations[k] \in DOMAIN WYDataDF
                /\ Stations[k] \in DOMAIN AnnualAverages
                /\ Stations[k] \in DOMAIN MoDataDF
                /\ Stations[k] \in DOMAIN MonthlyAverages

\* C10: once ClipData has returned to the script, the station's table holds
\* exactly the observations dated within [startDate, endDate] and the count of
\* the missing values among them, and when no observation is in the range the
\* call has failed with EmptyRangeError instead of returning an empty table.
C10_ClipFailsOnEmptyRange ==
    pc = "main_annual" =>
        /\ DataDF[Station] = InRange(Station)
        /\ MissingValues[Station] =
              Cardinality({k \in DOMAIN InRange(Station) :
                              InRange(Station)[k].Discharge = NaN})
        /\ InRange(Station) = <<>> => error = "EmptyRangeError"

=============================================================================
